---- MODULE Spec2Model ----
(***************************************************************************)
(* Shipment timeline workflow orchestrator                                 *)
(* (shipment-timeline-workflow/implementation/workflow_orchestrator.py).   *)
(*                                                                         *)
(* Each process of Procs is one run of the command line program: main()    *)
(* builds an orchestrator, which runs one mode against the shared          *)
(* database.  A process takes one step per database operation (gate,       *)
(* main query, view refresh, status queries); everything the code does     *)
(* between two database operations belongs to the step that precedes it.   *)
(* The three SQL files are not part of the sources: their effect is the    *)
(* one the specification gives them (DailyBaseSql, IncrementalSql,         *)
(* RefreshSql).  Any statement the code runs inside a try block may raise; *)
(* conn.rollback() in an except handler is taken to complete.              *)
(*                                                                         *)
(* Spec runs the invocations one after the other, over days.  SpecRace     *)
(* runs two daily_base invocations concurrently, SpecFile gives every mode *)
(* every event file, SpecStatus runs status mode over monitoring tables of *)
(* every size, SpecEvent calls process_s3_event on every kind of document, *)
(* SpecSample passes the demo's sample event file to incremental mode.     *)
(*                                                                         *)
(* Two programs beside the orchestrator use no database: the demo's data   *)
(* generator (demo/sample_data_generator.py; SpecTimeline, SpecHistorical) *)
(* and the container planning recommendation engine                        *)
(* (container_planning/analysis/recommendation_engine.py; SpecEngine).     *)
(* Their random draws and their inputs are choices of the call.            *)
(***************************************************************************)
EXTENDS Integers, Sequences, FiniteSets, TLC

\* ------------------------------------------------------------------ bounds
MaxRows == 1
MaxDay == 1
MaxStats == 11

\* LIMIT 10 of the processing_stats query of get_processing_status.
RecentStatsLimit == 10

Procs == {1, 2}

\* ------------------------------------------------------------ vocabulary
Modes == {"daily_base", "incremental", "refresh_view", "status"}

Statuses == {"pending", "running", "completed", "failed"}

ProcessTypes == {"daily_base", "incremental"}

\* Where a statement of execute_sql_file may raise.  "fetch_noresult" is the
\* psycopg2.ProgrammingError of fetchall() after a statement without a result
\* set; "fetch_error" is any other exception of fetchall().
SqlFaults == {"none", "read", "execute", "fetch_noresult", "fetch_error", "commit"}

RaisingSqlFaults == {"read", "execute", "fetch_error", "commit"}

RefreshFaults == {"none", "execute", "commit"}

\* ------------------------------------------------------ storage events
\* A JSON value of the event file, as far as process_s3_event looks at it:
\* top is the type of the document, bucket/object the type of the value
\* under that key ("absent": no such key), name/key/size the leaves.
Absent == "absent"

Payload(top, bucket, name, object, key, size, other) ==
    [top |-> top, bucket |-> bucket, name |-> name,
     object |-> object, key |-> key, size |-> size, other |-> other]

\* s3_event = None: no --s3-event-file, or a file holding null
NoPayload == Payload("none", Absent, Absent, Absent, Absent, Absent, FALSE)

\* {"bucket": {"name": "x"}, "object": {"key": "y", "size": 123}}
WellFormed == Payload("dict", "dict", "x", "dict", "y", "123", FALSE)

\* {}
EmptyDict == Payload("dict", Absent, Absent, Absent, Absent, Absent, FALSE)

\* {"Records": [...]}: a dictionary without the keys bucket and object
OtherKeys == Payload("dict", Absent, Absent, Absent, Absent, Absent, TRUE)

\* {"bucket": {}, "object": {"key": "y"}}: name and size missing
MissingFields == Payload("dict", "dict", Absent, "dict", "y", Absent, FALSE)

\* {"bucket": "x", "object": {"key": "y", "size": 123}}: bucket is no dictionary
BucketString == Payload("dict", "str", Absent, "dict", "y", "123", FALSE)

\* [1]: the document is no dictionary
TopList == Payload("list", Absent, Absent, Absent, Absent, Absent, FALSE)

Payloads == {WellFormed, EmptyDict, OtherKeys, MissingFields, BucketString, TopList}

\* ------------------------------------------------------------ variables
VARIABLES
    db,        \* the committed content of the database
    today,     \* CURRENT_DATE
    pc,        \* pc[i]: where invocation i stands
    mode,      \* mode[i]: --mode
    payload,   \* payload[i]: s3_event of main()
    conn,      \* conn[i]: orchestrator.db_connection
    opened,    \* opened[i]: connections psycopg2.connect has returned to i
    live,      \* live[i]: those of them not found closed
    result,    \* result[i]: the dictionary the mode returned
    exitCode,  \* exitCode[i]: -1 while running
    trace,     \* trace[i]: what invocation i has done, in order
    fault,     \* fault[i]: what raised in i's execute_sql_file
    wrote,     \* wrote[i]: the parts of db steps of i have changed
    seen,      \* seen[i]: the facts of db at the time of i's gate
    day0,      \* day0[i]: the date on which i was invoked
    built,     \* a daily_base invocation of today has succeeded
    s3_event_file,  \* s3_event_file[i]: was --s3-event-file given, was it opened
    event,     \* event[i]: what process_s3_event has done with its argument
    timeline,  \* what generate_shipment_timeline has returned
    historical,       \* a call of generate_historical_data and what it returned
    df,               \* the station metrics the recommendation engine is given
    anomalies,        \* the anomalies it is given
    recommendations   \* what generate_recommendations has made of them

vars == <<db, today, pc, mode, payload, conn, opened, live, result, exitCode,
          trace, fault, wrote, seen, day0, built, s3_event_file, event,
          timeline, historical, df, anomalies, recommendations>>

\* The state of the programs that run without the database: the demo's data
\* generator and the recommendation engine.
offline == <<timeline, historical, df, anomalies, recommendations>>

\* ------------------------------------------------------------- database
\* A row of processing_checkpoints with checkpoint_id = 'shipment_timeline'.
CheckpointRow(type, status, day) == [type |-> type, status |-> status, day |-> day]

\* base, inc, view: the rows of shipment_timeline_base, _incremental and
\* _realtime; cp: the checkpoint rows; stats, health: the rows of
\* processing_stats and of timeline_processing_health.
Database(base, inc, view, cp, stats, health) ==
    [base |-> base, inc |-> inc, view |-> view, cp |-> cp,
     stats |-> stats, health |-> health]

Min(a, b) == IF a < b THEN a ELSE b

\* daily_base_process.sql: the base timeline is recomputed wholesale (n rows)
\* and the daily_base checkpoint becomes completed with the current time.
DailyBaseSql(d, day, n) ==
    [d EXCEPT !.base = n,
              !.cp = {r \in d.cp : r.type # "daily_base"}
                        \cup {CheckpointRow("daily_base", "completed", day)}]

\* incremental_update_process.sql: n new rows are appended to the incremental
\* timeline and the incremental checkpoint becomes completed.
IncrementalSql(d, day, n) ==
    [d EXCEPT !.inc = Min(d.inc + n, MaxRows),
              !.cp = {r \in d.cp : r.type # "incremental"}
                        \cup {CheckpointRow("incremental", "completed", day)}]

\* refresh_shipment_timeline_realtime(): the view is recombined from the base
\* and the incremental timeline.
RefreshSql(d) == [d EXCEPT !.view = d.base + d.inc]

\* The statements of is_daily_base_completed, is_daily_base_available and
\* get_processing_status write as well: the checkpoints are marked running.
Select_marks(d) ==
    [d EXCEPT !.cp = {CheckpointRow(r.type, "running", r.day) : r \in d.cp}]

\* The statements of is_daily_base_completed, is_daily_base_available and
\* get_processing_status are SELECTs: the database after them is the
\* database before them.
Select(d) == d

\* A transaction of one connection: what the database held when it began and
\* what it would hold were the transaction committed.
Transaction(before, work) == [before |-> before, work |-> work]

Commit(t) == t.work

\* A rollback that leaves the statements' work in place.
Rollback_keeps(t) == t.work

Rollback(t) == t.before

\* --------------------------------------------------------------- results
\* A returned dictionary: error and message are "absent" when the key is
\* missing, execution_time says whether the key is there.
Res(kind, success, message, error, execution_time) ==
    [kind |-> kind, success |-> success, message |-> message, error |-> error,
     execution_time |-> execution_time]

NoResult == Res("none", FALSE, Absent, Absent, FALSE)

\* An exception left the mode's method: there is no dictionary.
Raised == Res("raised", FALSE, Absent, Absent, FALSE)

PreconditionError == "Daily base process must be completed first"

AlreadyCompleted == Res("result", TRUE, "Already completed", Absent, FALSE)

Has(seq, x) == \E k \in 1..Len(seq) : seq[k] = x

\* ---------------------------------------------------------- orchestrator
\* No test of self.db_connection: every call connects.
connect_database_always(c, closed, reachable) ==
    LET dropped == c # "none" /\ closed
    IN  IF reachable
        THEN [conn |-> "open", raised |-> FALSE, connected |-> TRUE,
              dropped |-> dropped]
        ELSE [conn |-> c, raised |-> TRUE, connected |-> FALSE,
              dropped |-> dropped]

\* connect_database: a connection is opened when there is none or when the
\* one at hand reports closed; psycopg2.connect raises when the database
\* cannot be reached, and the exception is raised again.
connect_database(c, closed, reachable) ==
    LET dropped == c # "none" /\ closed
    IN  IF c = "none" \/ closed
        THEN IF reachable
             THEN [conn |-> "open", raised |-> FALSE, connected |-> TRUE,
                   dropped |-> dropped]
             ELSE [conn |-> c, raised |-> TRUE, connected |-> FALSE,
                   dropped |-> dropped]
        ELSE [conn |-> c, raised |-> FALSE, connected |-> FALSE,
              dropped |-> dropped]

\* The date test compares with the day before CURRENT_DATE.
is_daily_base_completed_yesterday(d, day, raises) ==
    IF raises
    THEN FALSE
    ELSE {r \in d.cp : /\ r.type = "daily_base"
                       /\ r.day + 1 = day
                       /\ r.status = "completed"} # {}

\* No gate: the build is never held back.
is_daily_base_completed_never(d, day, raises) == FALSE

\* An exception of the query answers True.
is_daily_base_completed_fails_closed(d, day, raises) ==
    \/ raises
    \/ {r \in d.cp : r.type = "daily_base" /\ r.day = day /\ r.status = "completed"} # {}

\* The query without its status test.
is_daily_base_completed_any_status(d, day, raises) ==
    IF raises
    THEN FALSE
    ELSE {r \in d.cp : r.type = "daily_base" /\ r.day = day} # {}

\* is_daily_base_completed: a row of today with status completed exists; an
\* exception of the query answers False.
is_daily_base_completed(d, day, raises) ==
    IF raises
    THEN FALSE
    ELSE LET rows == {r \in d.cp : /\ r.type = "daily_base"
                                   /\ r.day = day
                                   /\ r.status = "completed"}
         IN  rows # {}

\* `or` for `and` in the return statement.
is_daily_base_available_either(d, raises) ==
    IF raises
    THEN FALSE
    ELSE \/ d.base > 0
         \/ {r \in d.cp : r.type = "daily_base" /\ r.status = "completed"} # {}

\* The checkpoint query also asks for a row of the current date.
is_daily_base_available_today(d, raises) ==
    IF raises
    THEN FALSE
    ELSE /\ d.base > 0
         /\ {r \in d.cp : /\ r.type = "daily_base"
                          /\ r.status = "completed"
                          /\ r.day = today} # {}

\* is_daily_base_available: the base table has rows and a completed
\* daily_base row exists; an exception of either query answers False.
is_daily_base_available(d, raises) ==
    IF raises
    THEN FALSE
    ELSE LET base_count == d.base
             rows == {r \in d.cp : r.type = "daily_base" /\ r.status = "completed"}
         IN  base_count > 0 /\ rows # {}

\* `if s3_event:` None, {} and [] are false.
Truthy(p) ==
    \/ p.top = "list"
    \/ p.top = "dict" /\ (p.bucket # Absent \/ p.object # Absent \/ p.other)

\* process_s3_event has not been called.
NoEvent == [raised |-> FALSE, logged |-> "nothing",
            bucket |-> Absent, key |-> Absent, size |-> Absent]

\* .get('size') without the default.
process_s3_event_no_default(p) ==
    LET failed == \/ p.top # "dict"
                  \/ p.bucket \notin {"dict", Absent}
                  \/ p.object \notin {"dict", Absent}
    IN  [raised |-> FALSE,
         logged |-> IF failed THEN "error" ELSE "event",
         bucket |-> IF failed THEN Absent ELSE p.name,
         key    |-> IF failed THEN Absent ELSE p.key,
         size   |-> IF failed THEN Absent ELSE p.size]

\* No try block: the AttributeError leaves the method.
process_s3_event_uncaught(p) ==
    LET failed == \/ p.top # "dict"
                  \/ p.bucket \notin {"dict", Absent}
                  \/ p.object \notin {"dict", Absent}
    IN  [raised |-> failed,
         logged |-> IF failed THEN "error" ELSE "event",
         bucket |-> IF failed THEN Absent ELSE p.name,
         key    |-> IF failed THEN Absent ELSE p.key,
         size   |-> IF failed THEN Absent
                    ELSE IF p.size = Absent THEN "0" ELSE p.size]

\* process_s3_event: .get of a value that is no dictionary raises
\* AttributeError, which the except clause logs; nothing leaves the method.
process_s3_event(p) ==
    LET failed == \/ p.top # "dict"
                  \/ p.bucket \notin {"dict", Absent}
                  \/ p.object \notin {"dict", Absent}
    IN  [raised |-> FALSE,
         logged |-> IF failed THEN "error" ELSE "event",
         bucket |-> IF failed THEN Absent ELSE p.name,
         key    |-> IF failed THEN Absent ELSE p.key,
         size   |-> IF failed THEN Absent
                    ELSE IF p.size = Absent THEN "0" ELSE p.size]

\* The except clause commits instead of rolling back.
execute_sql_file_commits(d, work, f) ==
    LET t == Transaction(d, IF f \in {"read", "execute"} THEN d ELSE work)
    IN  IF f \in RaisingSqlFaults
        THEN [db |-> Commit(t),
              res |-> Res("result", FALSE, Absent, "exception", TRUE)]
        ELSE [db |-> Commit(t),
              res |-> Res("result", TRUE, Absent, Absent, TRUE)]

\* execute_sql_file: read the file, execute it, fetch, commit; any exception
\* but the ProgrammingError of fetchall rolls back.  work is the database as
\* the statements of the file leave it.
execute_sql_file(d, work, f) ==
    LET t == Transaction(d, IF f \in {"read", "execute"} THEN d ELSE work)
    IN  IF f \in RaisingSqlFaults
        THEN [db |-> Rollback(t),
              res |-> Res("result", FALSE, Absent, "exception", TRUE)]
        ELSE [db |-> Commit(t),
              res |-> Res("result", TRUE, Absent, Absent, TRUE)]

\* Success is returned without conn.commit(): the statement's work is lost.
refresh_realtime_view_uncommitted(d, f) ==
    LET t == Transaction(d, IF f = "execute" THEN d ELSE RefreshSql(d))
    IN  IF f # "none"
        THEN [db |-> Rollback(t),
              res |-> Res("result", FALSE, Absent, "exception", FALSE)]
        ELSE [db |-> Rollback(t),
              res |-> Res("result", TRUE, Absent, Absent, TRUE)]

\* The failure dictionary without its error key.
refresh_realtime_view_no_error(d, f) ==
    LET t == Transaction(d, IF f = "execute" THEN d ELSE RefreshSql(d))
    IN  IF f # "none"
        THEN [db |-> Rollback(t),
              res |-> Res("result", FALSE, Absent, Absent, FALSE)]
        ELSE [db |-> Commit(t),
              res |-> Res("result", TRUE, Absent, Absent, TRUE)]

\* refresh_realtime_view: one statement and its commit, rolled back on any
\* exception; the failure dictionary has no execution_time.
refresh_realtime_view(d, f) ==
    LET t == Transaction(d, IF f = "execute" THEN d ELSE RefreshSql(d))
    IN  IF f # "none"
        THEN [db |-> Rollback(t),
              res |-> Res("result", FALSE, Absent, "exception", FALSE)]
        ELSE [db |-> Commit(t),
              res |-> Res("result", TRUE, Absent, Absent, TRUE)]

\* The dictionary of get_processing_status: checkpoint and health are
\* "null" or "row", recent_stats is the number of records in the list; the
\* three keys are "absent" in {'error': ...}.
StatusRes(checkpoint, recent_stats, health, error) ==
    [kind |-> "status", success |-> FALSE, message |-> Absent, error |-> error,
     execution_time |-> FALSE, checkpoint |-> checkpoint,
     recent_stats |-> recent_stats, health |-> health]

\* The processing_stats query without LIMIT.
get_processing_status_unlimited(d, raises) ==
    IF raises
    THEN StatusRes(Absent, -1, Absent, "exception")
    ELSE StatusRes(IF d.cp # {} THEN "row" ELSE "null",
                   d.stats,
                   IF d.health > 0 THEN "row" ELSE "null",
                   Absent)

\* get_processing_status: three SELECTs, fetchone / fetchall (LIMIT 10) /
\* fetchone; an exception gives {'error': ...}.
get_processing_status(d, raises) ==
    IF raises
    THEN StatusRes(Absent, -1, Absent, "exception")
    ELSE LET checkpoint == IF d.cp # {} THEN "row" ELSE "null"
             recent_stats == Min(d.stats, RecentStatsLimit)
             health == IF d.health > 0 THEN "row" ELSE "null"
         IN  StatusRes(checkpoint, recent_stats, health, Absent)

\* run_incremental_update, the refusal of lines 185-190.
PreconditionFailure == Res("result", FALSE, Absent, PreconditionError, FALSE)

\* The refresh outside the `if result['success']` block.
RefreshAfter_always(res) == TRUE

\* run_daily_base_process and run_incremental_update refresh the view only
\* when the main query has succeeded.
RefreshAfter(res) == res.success

\* A failed main query is executed again.
AfterMain_retry(res) == IF res.success THEN "refresh" ELSE "main"

\* Where the method goes once execute_sql_file has returned: to the view
\* refresh, or to its return statement.
AfterMain(res) == IF RefreshAfter(res) THEN "refresh" ELSE "exited"

\* The else branch sends the completion notification as well.
Notification_completion_always(m, success) ==
    IF m = "daily_base" THEN "processing_notification" ELSE "metrics"

\* What the method sends once the main query has returned: on success (and
\* after the view refresh) the completion notification of daily_base or the
\* metrics of incremental, on failure the error notification.
Notification(m, success) ==
    IF success
    THEN IF m = "daily_base" THEN "processing_notification" ELSE "metrics"
    ELSE "error_notification"

\* The status branch ahead of the exception handler.
ExitCodeOf_status_first(m, res) ==
    IF m = "status" THEN 0
    ELSE IF res.kind = "raised" THEN 1
    ELSE IF res.success THEN 0 ELSE 1

\* main: the exit code.  Status mode prints and returns; an exception that
\* reaches main exits with 1.
ExitCodeOf(m, res) ==
    IF res.kind = "raised" THEN 1
    ELSE IF m = "status" THEN 0
    ELSE IF res.success THEN 0 ELSE 1

\* ------------------------------------------------------- instrumentation
\* The parts of the database that differ between d and e.
Diff(d, e) ==
    {part \in {"base", "inc", "view", "cp", "stats", "health"} : d[part] # e[part]}

NotSeen == [reached |-> FALSE, base |-> FALSE, completed |-> FALSE,
            completedToday |-> FALSE, raised |-> FALSE, after |-> FALSE]

\* What the database holds when invocation i runs its gate query, read off
\* the tables themselves, and whether the query raised.
SeenAt(i, raises) ==
    [reached |-> TRUE,
     base |-> db.base >= 1,
     completed |-> CheckpointRow("daily_base", "completed", 0) \in
                      {CheckpointRow(r.type, r.status, 0) : r \in db.cp},
     completedToday |-> CheckpointRow("daily_base", "completed", today) \in db.cp,
     raised |-> raises,
     after |-> day0[i] = today /\ built]

\* ------------------------------------------------------------------ Init
\* The database exists before the program runs: the timelines may be empty
\* or not and the daily_base checkpoint may be missing or in any status.
CheckpointStores ==
    {{}} \cup {{CheckpointRow("daily_base", st, 0)} : st \in Statuses}

\* processing_stats and timeline_processing_health are empty, or hold a row
\* each beside a built base timeline.
InitialDatabases ==
    {Database(b, 0, 0, cp, 0, 0) : b \in 0..MaxRows, cp \in CheckpointStores}
        \cup {Database(1, 0, 0, {CheckpointRow("daily_base", "completed", 0)}, 1, 1)}

\* No invocation has begun.
\* generate_recommendations has not been called.
NoRecommendations ==
    [outcome |-> "none", high_priority |-> <<>>, medium_priority |-> <<>>,
     low_priority |-> <<>>, best_practices |-> <<>>, knowledge_sharing |-> <<>>]

NoInvocation ==
    /\ today = 0
    /\ pc = [i \in Procs |-> "idle"]
    /\ mode = [i \in Procs |-> "status"]
    /\ payload = [i \in Procs |-> NoPayload]
    /\ conn = [i \in Procs |-> "none"]
    /\ opened = [i \in Procs |-> 0]
    /\ live = [i \in Procs |-> 0]
    /\ result = [i \in Procs |-> NoResult]
    /\ exitCode = [i \in Procs |-> -1]
    /\ trace = [i \in Procs |-> <<>>]
    /\ fault = [i \in Procs |-> "none"]
    /\ wrote = [i \in Procs |-> {}]
    /\ seen = [i \in Procs |-> NotSeen]
    /\ day0 = [i \in Procs |-> 0]
    /\ built = FALSE
    /\ s3_event_file = [i \in Procs |-> [given |-> FALSE, opened |-> FALSE]]
    /\ event = [i \in Procs |-> NoEvent]
    /\ timeline = <<>>
    /\ historical = [called |-> FALSE, days |-> 0, shipments_per_day |-> 0,
                     all_events |-> <<>>]
    /\ df = <<>>
    /\ anomalies = <<>>
    /\ recommendations = NoRecommendations

Init == db \in InitialDatabases /\ NoInvocation

\* --------------------------------------------------------------- actions
\* The mode's method has returned res, or raised (res = Raised), and main
\* exits.
Leave(i, res, tr) ==
    /\ pc' = [pc EXCEPT ![i] = "exited"]
    /\ result' = [result EXCEPT ![i] = res]
    /\ exitCode' = [exitCode EXCEPT ![i] = ExitCodeOf(mode[i], res)]
    /\ trace' = [trace EXCEPT ![i] = tr]
    /\ built' = (built \/ (/\ mode[i] = "daily_base"
                            /\ res.kind = "result"
                            /\ res.success
                            /\ day0[i] = today))

\* The method goes on to its next database operation.
Goto(i, where, tr) ==
    /\ pc' = [pc EXCEPT ![i] = where]
    /\ trace' = [trace EXCEPT ![i] = tr]
    /\ UNCHANGED <<exitCode, built>>

Connected(i, c) ==
    /\ conn' = [conn EXCEPT ![i] = c.conn]
    /\ opened' = [opened EXCEPT ![i] = IF c.connected THEN @ + 1 ELSE @]
    /\ live' = [live EXCEPT ![i] = @ - (IF c.dropped THEN 1 ELSE 0)
                                      + (IF c.connected THEN 1 ELSE 0)]

\* The event files --s3-event-file may name: parsed is what json.load gives;
\* an unreadable file makes open or json.load raise.
EventFiles ==
    {[given |-> TRUE, readable |-> FALSE, parsed |-> NoPayload]}
        \cup {[given |-> TRUE, readable |-> TRUE, parsed |-> p] :
                  p \in Payloads \cup {NoPayload}}

\* No --s3-event-file on the command line.
NoEventFile == [given |-> FALSE, readable |-> FALSE, parsed |-> NoPayload]

\* The file is opened in every mode.
OpensFile_any_mode(m, file) == file.given

\* main opens the event file in the incremental branch, when the option is
\* given.
OpensFile(m, file) == m = "incremental" /\ file.given

\* refresh_view mode asks the availability gate first.
FirstStep_gated(m) ==
    CASE m = "status" -> "status"
      [] OTHER -> "gate"

\* The first database operation of the method main calls for mode m: the
\* gate of run_daily_base_process and run_incremental_update, the statement
\* of refresh_realtime_view, the queries of get_processing_status.
FirstStep(m) ==
    CASE m = "refresh_view" -> "refresh"
      [] m = "status" -> "status"
      [] OTHER -> "gate"

\* main() up to the call of the mode's method: a new process with a new
\* orchestrator runs mode m; where the event file is opened, it is parsed,
\* and open or json.load may raise.
Invoke(i, m, file) ==
    LET fails == OpensFile(m, file) /\ ~file.readable
    IN  /\ pc[i] \in {"idle", "exited"}
        /\ mode' = [mode EXCEPT ![i] = m]
        /\ s3_event_file' = [s3_event_file EXCEPT ![i] =
                                [given |-> file.given, opened |-> OpensFile(m, file)]]
        /\ event' = [event EXCEPT ![i] = NoEvent]
        /\ payload' = [payload EXCEPT ![i] =
                          IF OpensFile(m, file) /\ file.readable
                          THEN file.parsed ELSE NoPayload]
        /\ conn' = [conn EXCEPT ![i] = "none"]
        /\ opened' = [opened EXCEPT ![i] = 0]
        /\ live' = [live EXCEPT ![i] = 0]
        /\ fault' = [fault EXCEPT ![i] = "none"]
        /\ wrote' = [wrote EXCEPT ![i] = {}]
        /\ seen' = [seen EXCEPT ![i] = NotSeen]
        /\ day0' = [day0 EXCEPT ![i] = today]
        /\ trace' = [trace EXCEPT ![i] = IF fails THEN <<"event_file_failed">> ELSE <<>>]
        /\ pc' = [pc EXCEPT ![i] =
                     IF fails THEN "exited" ELSE FirstStep(m)]
        /\ result' = [result EXCEPT ![i] = IF fails THEN Raised ELSE NoResult]
        /\ exitCode' = [exitCode EXCEPT ![i] =
                           IF fails THEN ExitCodeOf(m, Raised) ELSE -1]
        /\ UNCHANGED <<db, today, built>>
        /\ UNCHANGED offline

\* The event files the scheduler passes: none, or in incremental mode the
\* file of the storage event.
ScheduledFiles(m) ==
    IF m = "incremental" THEN EventFiles \cup {NoEventFile} ELSE {NoEventFile}

\* Invocations are serialized by the scheduler: one starts when no other is
\* running, in the first process slot.
Start(i) ==
    /\ \A j \in Procs \ {i} : pc[j] \in {"idle", "exited"} /\ i < j
    /\ \E m \in Modes : \E file \in ScheduledFiles(m) : Invoke(i, m, file)

\* What `self.db_connection.closed` may say and whether psycopg2.connect
\* would succeed, where connect_database asks.
ClosedChoices(i) == IF conn[i] = "open" THEN BOOLEAN ELSE {FALSE}

ReachableChoices(i, closed) == IF conn[i] = "none" \/ closed THEN BOOLEAN ELSE {TRUE}

\* run_daily_base_process up to the build query, run_incremental_update up
\* to the storage event: the gate.
\* run_incremental_update hands the payload to process_s3_event only past the
\* early return of the availability gate, and only when the payload is truthy.
ProcessesPayload_before_gate(available, p) == Truthy(p)

ProcessesPayload(available, p) == available /\ Truthy(p)

Gate(i) ==
    /\ pc[i] = "gate"
    /\ \E closed \in ClosedChoices(i) : \E reachable \in ReachableChoices(i, closed) :
          LET c == connect_database(conn[i], closed, reachable)
              tr == Append(trace[i], IF mode[i] = "daily_base"
                                     THEN "gate_completed" ELSE "gate_available")
          IN  /\ Connected(i, c)
              /\ IF c.raised
                 THEN /\ Leave(i, Raised, Append(trace[i], "connect_failed"))
                      /\ payload' = [payload EXCEPT ![i] = NoPayload]
                      /\ UNCHANGED <<db, seen>>
                 ELSE \E raises \in BOOLEAN :
                      /\ seen' = [seen EXCEPT ![i] = SeenAt(i, raises)]
                      /\ db' = Select(db)
                      /\ IF mode[i] = "daily_base"
                         THEN /\ UNCHANGED payload
                              /\ IF is_daily_base_completed(db, today, raises)
                                 THEN Leave(i, AlreadyCompleted, tr)
                                 ELSE Goto(i, "main", tr) /\ UNCHANGED result
                         ELSE LET available == is_daily_base_available(db, raises)
                              IN  IF ProcessesPayload(available, payload[i])
                                  THEN /\ Goto(i, "s3", tr)
                                       /\ UNCHANGED <<result, payload>>
                                  ELSE IF ~available
                                  THEN /\ Leave(i, PreconditionFailure, tr)
                                       /\ payload' = [payload EXCEPT ![i] = NoPayload]
                                  ELSE /\ Goto(i, "main", tr)
                                       /\ payload' = [payload EXCEPT ![i] = NoPayload]
                                       /\ UNCHANGED result
    /\ UNCHANGED <<today, mode, fault, wrote, day0, s3_event_file, event>>
    /\ UNCHANGED offline

\* run_incremental_update, lines 192-194: the storage event is looked at,
\* and not again after that.
S3Event(i) ==
    /\ pc[i] = "s3"
    /\ LET e == process_s3_event(payload[i])
       IN  IF e.raised
           THEN Leave(i, Raised, Append(trace[i], "s3_raised"))
           ELSE Goto(i, "main", Append(trace[i], "s3_" \o e.logged)) /\ UNCHANGED result
    /\ event' = [event EXCEPT ![i] = process_s3_event(payload[i])]
    /\ payload' = [payload EXCEPT ![i] = NoPayload]
    /\ UNCHANGED <<db, today, mode, conn, opened, live, fault, wrote, seen, day0,
                   s3_event_file>>
    /\ UNCHANGED offline

\* execute_sql_file of the build or the incremental query, and what the
\* method does with a failure.
Main(i) ==
    /\ pc[i] = "main"
    /\ \E closed \in ClosedChoices(i) : \E reachable \in ReachableChoices(i, closed) :
          LET c == connect_database(conn[i], closed, reachable)
          IN  /\ Connected(i, c)
              /\ IF c.raised
                 THEN /\ Leave(i, Raised, Append(trace[i], "connect_failed"))
                      /\ UNCHANGED <<db, fault, wrote>>
                 ELSE \E f \in SqlFaults, n \in 0..MaxRows :
                      LET work == IF mode[i] = "daily_base"
                                  THEN DailyBaseSql(db, today, n)
                                  ELSE IncrementalSql(db, today, n)
                          r == execute_sql_file(db, work, f)
                          tr == Append(trace[i], IF r.res.success
                                                 THEN "main_commit" ELSE "main_rollback")
                      IN  /\ db' = r.db
                          /\ fault' = [fault EXCEPT ![i] = f]
                          /\ wrote' = [wrote EXCEPT ![i] = @ \cup Diff(db, r.db)]
                          /\ IF AfterMain(r.res) # "exited"
                             THEN /\ Goto(i, AfterMain(r.res), tr)
                                  /\ result' = [result EXCEPT ![i] = r.res]
                             ELSE Leave(i, r.res,
                                        Append(tr, Notification(mode[i], r.res.success)))
    /\ UNCHANGED <<today, mode, payload, seen, day0, s3_event_file, event>>
    /\ UNCHANGED offline

\* refresh_realtime_view, as a mode of its own or after the main query, and
\* the notification or the metrics that follow it.
\* What an invocation that refreshed the view returns: the refresh's own
\* result in refresh_view mode; in the two processing modes the value of
\* refresh_realtime_view is dropped and the main query's result is returned.
Returned_of_refresh(m, main_result, refreshed) ==
    IF refreshed.success THEN main_result ELSE refreshed

Returned(m, main_result, refreshed) ==
    IF m = "refresh_view" THEN refreshed ELSE main_result

Refresh(i) ==
    /\ pc[i] = "refresh"
    /\ \E closed \in ClosedChoices(i) : \E reachable \in ReachableChoices(i, closed) :
          LET c == connect_database(conn[i], closed, reachable)
          IN  /\ Connected(i, c)
              /\ IF c.raised
                 THEN /\ Leave(i, Raised, Append(trace[i], "connect_failed"))
                      /\ UNCHANGED <<db, wrote>>
                 ELSE \E f \in RefreshFaults :
                      LET r == refresh_realtime_view(db, f)
                          tr == Append(trace[i], IF r.res.success
                                                 THEN "refresh_commit"
                                                 ELSE "refresh_rollback")
                      IN  /\ db' = r.db
                          /\ wrote' = [wrote EXCEPT ![i] = @ \cup Diff(db, r.db)]
                          /\ CASE mode[i] = "refresh_view" ->
                                    Leave(i, Returned(mode[i], result[i], r.res), tr)
                               [] OTHER ->
                                    Leave(i, Returned(mode[i], result[i], r.res),
                                          Append(tr, Notification(mode[i],
                                                                  result[i].success)))
    /\ UNCHANGED <<today, mode, payload, fault, seen, day0, s3_event_file, event>>
    /\ UNCHANGED offline

\* get_processing_status and the print of main.
Status(i) ==
    /\ pc[i] = "status"
    /\ \E closed \in ClosedChoices(i) : \E reachable \in ReachableChoices(i, closed) :
          LET c == connect_database(conn[i], closed, reachable)
          IN  /\ Connected(i, c)
              /\ IF c.raised
                 THEN /\ Leave(i, Raised, Append(trace[i], "connect_failed"))
                      /\ UNCHANGED db
                 ELSE \E raises \in BOOLEAN :
                      /\ db' = Select(db)
                      /\ Leave(i, get_processing_status(db, raises),
                               IF raises
                               THEN trace[i] \o <<"status_queries", "status_error">>
                               ELSE Append(trace[i], "status_queries"))
    /\ UNCHANGED <<today, mode, payload, fault, wrote, seen, day0,
                   s3_event_file, event>>
    /\ UNCHANGED offline

\* Midnight.
Tick ==
    /\ today < MaxDay
    /\ today' = today + 1
    /\ built' = FALSE
    /\ UNCHANGED <<db, pc, mode, payload, conn, opened, live, result,
                   exitCode,
                   trace, fault, wrote, seen, day0, s3_event_file, event>>
    /\ UNCHANGED offline

Next ==
    \/ \E i \in Procs : Start(i)
    \/ \E i \in Procs : Gate(i)
    \/ \E i \in Procs : S3Event(i)
    \/ \E i \in Procs : Main(i)
    \/ \E i \in Procs : Refresh(i)
    \/ \E i \in Procs : Status(i)
    \/ Tick

Spec == Init /\ [][Next]_vars

\* --------------------------------------------------- concurrent schedule
\* Two schedulers fire daily_base on the same date: the second process may
\* start while the first is anywhere between its gate and its exit.
RaceStart(i) ==
    /\ pc[i] = "idle"
    /\ \A j \in Procs : j < i => pc[j] # "idle"
    /\ Invoke(i, "daily_base", NoEventFile)

NextRace ==
    \/ \E i \in Procs : RaceStart(i)
    \/ \E i \in Procs : Gate(i)
    \/ \E i \in Procs : Main(i)
    \/ \E i \in Procs : Refresh(i)

SpecRace == Init /\ [][NextRace]_vars

\* ------------------------------------------------------- status reports
\* The monitoring tables hold anything from nothing to more rows than the
\* report shows; only status mode runs.
StatusDatabases ==
    {Database(b, 0, 0, cp, s, h) :
        b \in 0..MaxRows, cp \in CheckpointStores, s \in 0..MaxStats, h \in 0..1}

InitStatus == db \in StatusDatabases /\ NoInvocation

StatusStart(i) ==
    /\ \A j \in Procs \ {i} : pc[j] \in {"idle", "exited"} /\ i < j
    /\ \E file \in EventFiles \cup {NoEventFile} : Invoke(i, "status", file)

NextStatus ==
    \/ \E i \in Procs : StatusStart(i)
    \/ \E i \in Procs : Status(i)

SpecStatus == InitStatus /\ [][NextStatus]_vars

\* ------------------------------------------------ any mode, any event file
\* The command line as an operator may type it: --s3-event-file with any
\* mode, on one day.
StartAny(i) ==
    /\ \A j \in Procs \ {i} : pc[j] \in {"idle", "exited"} /\ i < j
    /\ \E m \in Modes : \E file \in EventFiles \cup {NoEventFile} : Invoke(i, m, file)

NextFile ==
    \/ \E i \in Procs : StartAny(i)
    \/ \E i \in Procs : Gate(i)
    \/ \E i \in Procs : S3Event(i)
    \/ \E i \in Procs : Main(i)
    \/ \E i \in Procs : Refresh(i)
    \/ \E i \in Procs : Status(i)

SpecFile == Init /\ [][NextFile]_vars

\* ------------------------------------------------- storage event adapter
\* Every JSON document as process_s3_event can tell them apart: documents
\* that are no dictionary, and dictionaries whose bucket and object are
\* missing, null, a string or a dictionary with or without its leaves.
Leaves(a, b) == {<<x, y>> : x \in {Absent, a}, y \in {Absent, b}}

BucketValues ==
    {<<"dict", n>> : n \in {Absent, "x"}}
        \cup {<<t, Absent>> : t \in {Absent, "null", "str"}}

ObjectValues ==
    {<<"dict", l[1], l[2]>> : l \in Leaves("y", "123")}
        \cup {<<t, Absent, Absent>> : t \in {Absent, "null", "str"}}

AllPayloads ==
    {Payload("dict", b[1], b[2], o[1], o[2], o[3], FALSE) :
        b \in BucketValues, o \in ObjectValues}
        \cup {Payload(t, Absent, Absent, Absent, Absent, Absent, FALSE) :
                  t \in {"list", "str"}}

\* orchestrator.process_s3_event(p), called on its own.
CallEvent(i) ==
    /\ pc[i] = "idle"
    /\ \E p \in AllPayloads :
          /\ payload' = [payload EXCEPT ![i] = p]
          /\ event' = [event EXCEPT ![i] = process_s3_event(p)]
    /\ UNCHANGED <<db, today, pc, mode, conn, opened, live, result,
                   exitCode, trace,
                   fault, wrote, seen, day0, built, s3_event_file>>
    /\ UNCHANGED offline

NextEvent == \E i \in Procs : CallEvent(i)

SpecEvent == Init /\ [][NextEvent]_vars

\* ------------------------------------------------- the demo's generator
\* ShipmentDataGenerator of sample_data_generator.py.  An event is kept with
\* its shipment_id and its event_type; the location, the timestamps and the
\* package fields of an event take no part in what is generated next.
event_progression ==
    <<"created", "picked", "packed", "shipped", "in_transit", "arrived_sort",
      "departed_sort", "arrived_delivery", "out_for_delivery", "delivered">>

\* The loop of generate_shipment_timeline from position i on.  skip holds the
\* positions at which random.random() < 0.1 came out true, never_skipped the
\* event types the `continue` leaves alone.
RECURSIVE TimelineFrom(_, _, _, _, _)
TimelineFrom(shipment_id, skip, never_skipped, i, events) ==
    IF i > Len(event_progression)
    THEN events
    ELSE LET event_type == event_progression[i]
         IN  IF i \in skip /\ event_type \notin never_skipped
             THEN TimelineFrom(shipment_id, skip, never_skipped, i + 1, events)
             ELSE LET appended == Append(events, [shipment_id |-> shipment_id,
                                                  event_type |-> event_type])
                  IN  IF event_type = "delivered"
                      THEN appended
                      ELSE TimelineFrom(shipment_id, skip, never_skipped, i + 1,
                                        appended)

\* The `continue` without its exemption of created and delivered.
generate_shipment_timeline_skips_any(shipment_id, skip) ==
    TimelineFrom(shipment_id, skip, {}, 1, <<>>)

generate_shipment_timeline(shipment_id, skip) ==
    TimelineFrom(shipment_id, skip, {"created", "delivered"}, 1, <<>>)

\* Every outcome of the random draws of one call.
AllSkips == SUBSET (1..Len(event_progression))

\* generator.generate_shipment_timeline(...), called on its own.
CallTimeline ==
    /\ \E skip \in AllSkips :
          timeline' = generate_shipment_timeline(<<"SHIP">>, skip)
    /\ UNCHANGED <<db, today, pc, mode, payload, conn, opened, live, result,
                   exitCode, trace, fault, wrote, seen, day0, built,
                   s3_event_file, event>>
    /\ UNCHANGED <<historical, df, anomalies, recommendations>>

\* The programs that use no database start with an empty one.
InitOffline == db = Database(0, 0, 0, {}, 0, 0) /\ NoInvocation

NextTimeline == CallTimeline

SpecTimeline == InitOffline /\ [][NextTimeline]_vars

\* ---------------------------------------------- the demo's historical data
MaxDays == 2

MaxPerDay == 2

\* The draws of one timeline in the historical data: nothing skipped, every
\* draw below 0.1, and two of the draws below 0.1.
HistorySkips == {{}, 1..Len(event_progression), {2, 5}}

\* The decimal digits of a natural number.
RECURSIVE Digits(_)
Digits(n) == IF n < 10 THEN <<n>> ELSE Append(Digits(n \div 10), n % 10)

\* f"{ship_idx:04d}": the digits, with zeros in front up to four of them.
FormatIndex(ship_idx) ==
    LET ds == Digits(ship_idx)
    IN  IF Len(ds) >= 4 THEN ds ELSE [k \in 1..(4 - Len(ds)) |-> 0] \o ds

\* f"SHIP_{day_start.strftime('%Y%m%d')}_{ship_idx:04d}", the date kept as
\* its day number.
ShipmentId(day_start, ship_idx) == <<"SHIP", day_start, FormatIndex(ship_idx)>>

\* day_start, as a date: every day of the loop is placed on a date of its own
\* before the day on which datetime.now() is read.
DayStart_same_day(now, days, day_offset) == now - days

DayStart(now, days, day_offset) == now - (days - day_offset)

\* What datetime.now() may answer in the iterations of the outer loop: the
\* day on which the call began, or the one after it once midnight has passed.
Clocks(days) ==
    {c \in [0..(days - 1) -> 0..1] :
        \A a, b \in 0..(days - 1) : a < b => c[a] <= c[b]}

\* The inner loop of generate_historical_data from ship_idx on.
RECURSIVE ShipmentsFrom(_, _, _, _, _)
ShipmentsFrom(day_start, shipments_per_day, skips, ship_idx, all_events) ==
    IF ship_idx >= shipments_per_day
    THEN all_events
    ELSE ShipmentsFrom(day_start, shipments_per_day, skips, ship_idx + 1,
                       all_events \o
                       generate_shipment_timeline(ShipmentId(day_start, ship_idx),
                                                  skips[ship_idx]))

\* The outer loop from day_offset on.
RECURSIVE DaysFrom(_, _, _, _, _, _)
DaysFrom(days, shipments_per_day, clock, skips, day_offset, all_events) ==
    IF day_offset >= days
    THEN all_events
    ELSE DaysFrom(days, shipments_per_day, clock, skips, day_offset + 1,
                  ShipmentsFrom(DayStart(clock[day_offset], days, day_offset),
                                shipments_per_day, skips[day_offset], 0, all_events))

generate_historical_data(days, shipments_per_day, clock, skips) ==
    DaysFrom(days, shipments_per_day, clock, skips, 0, <<>>)

\* simulate_daily_base_process: the two counts it prints.
UniqueShipments(events) ==
    Cardinality({events[k].shipment_id : k \in 1..Len(events)})

DeliveredShipments(events) ==
    Cardinality({k \in 1..Len(events) : events[k].event_type = "delivered"})

\* generator.generate_historical_data(days, shipments_per_day), called once
\* as the demo calls it.
CallHistorical ==
    /\ ~historical.called
    /\ \E days \in 0..MaxDays : \E shipments_per_day \in 0..MaxPerDay :
       \E clock \in Clocks(days) :
       \E skips \in [0..(days - 1) -> [0..(shipments_per_day - 1) -> HistorySkips]] :
          historical' =
              [called |-> TRUE, days |-> days,
               shipments_per_day |-> shipments_per_day,
               all_events |-> generate_historical_data(days, shipments_per_day,
                                                       clock, skips)]
    /\ UNCHANGED <<db, today, pc, mode, payload, conn, opened, live, result,
                   exitCode, trace, fault, wrote, seen, day0, built,
                   s3_event_file, event>>
    /\ UNCHANGED <<timeline, df, anomalies, recommendations>>

NextHistorical == CallHistorical

SpecHistorical == InitOffline /\ [][NextHistorical]_vars

\* ------------------------------------------- the recommendation engine
\* generate_recommendations of recommendation_engine.py.  Rates are whole
\* percentages, dates are day numbers; the trend context, which only adds a
\* text to a high-priority entry, is left out.
THRESHOLDS ==
    [planning_rate |-> [excellent |-> 95, good |-> 85, average |-> 75, poor |-> 60],
     no_cycle_rate |-> [excellent |-> 5, good |-> 10, average |-> 20, poor |-> 30],
     volume_threshold |-> 1000]

MaxRecords == 2

\* station_code values, in the order groupby('station_code') yields them.
StationOrder == <<"DAU1", "DAU2">>

MetricsRow(station_code, date, total_packages, planning_rate, no_cycle_rate) ==
    [station_code |-> station_code, date |-> date,
     total_packages |-> total_packages,
     planning_rate |-> planning_rate, no_cycle_rate |-> no_cycle_rate]

\* One value of each band of either rate, and a volume on either side of the
\* threshold.
PlanningRates == {59, 60, 75, 85, 95}

NoCycleRates == {5, 10, 30, 31}

Volumes == {999, 1000}

\* The rows of one station on a date of df.
StationRows(frame, station) ==
    {frame[k] : k \in {j \in 1..Len(frame) : frame[j].station_code = station}}

\* df.sort_values('date').groupby('station_code').last(): the row of the
\* station with the latest date.
LatestRow(frame, station) ==
    CHOOSE r \in StationRows(frame, station) :
        \A q \in StationRows(frame, station) : q.date <= r.date

\* `if row['total_packages'] < THRESHOLDS['volume_threshold']: continue`
SufficientVolume_always(row) == TRUE

SufficientVolume(row) == row.total_packages >= THRESHOLDS.volume_threshold

Entry(list, rec) == [list |-> list, rec |-> rec]

ThresholdRec(row, metric, target_value, potential_impact, recommendation) ==
    [station_code |-> row.station_code, metric |-> metric,
     current_value |-> row[metric], target_value |-> target_value,
     potential_impact |-> potential_impact, recommendation |-> recommendation]

\* The first `if` of the loop body: no-cycle rate above poor.
HighNoCycle(row) ==
    IF row.no_cycle_rate > THRESHOLDS.no_cycle_rate.poor
    THEN <<Entry("high_priority",
                 ThresholdRec(row, "no_cycle_rate", THRESHOLDS.no_cycle_rate.average,
                              "high", "Reduce no-cycle rate"))>>
    ELSE <<>>

\* The second `if` and the four `elif` that hang on it.
BandChain(row) ==
    IF row.planning_rate < THRESHOLDS.planning_rate.poor
    THEN <<Entry("high_priority",
                 ThresholdRec(row, "planning_rate", THRESHOLDS.planning_rate.average,
                              "high", "Increase planning rate"))>>
    ELSE IF /\ THRESHOLDS.no_cycle_rate.good < row.no_cycle_rate
            /\ row.no_cycle_rate <= THRESHOLDS.no_cycle_rate.poor
    THEN <<Entry("medium_priority",
                 ThresholdRec(row, "no_cycle_rate", THRESHOLDS.no_cycle_rate.good,
                              "medium", "Reduce no-cycle rate"))>>
    ELSE IF /\ THRESHOLDS.planning_rate.poor <= row.planning_rate
            /\ row.planning_rate < THRESHOLDS.planning_rate.average
    THEN <<Entry("medium_priority",
                 ThresholdRec(row, "planning_rate", THRESHOLDS.planning_rate.good,
                              "medium", "Increase planning rate"))>>
    ELSE IF /\ THRESHOLDS.no_cycle_rate.excellent < row.no_cycle_rate
            /\ row.no_cycle_rate <= THRESHOLDS.no_cycle_rate.good
    THEN <<Entry("low_priority",
                 ThresholdRec(row, "no_cycle_rate", THRESHOLDS.no_cycle_rate.excellent,
                              "low", "Fine-tune no-cycle rate"))>>
    ELSE IF /\ THRESHOLDS.planning_rate.average <= row.planning_rate
            /\ row.planning_rate < THRESHOLDS.planning_rate.good
    THEN <<Entry("low_priority",
                 ThresholdRec(row, "planning_rate", THRESHOLDS.planning_rate.excellent,
                              "low", "Fine-tune planning rate"))>>
    ELSE <<>>

\* "Identify best practice examples".
BestPractice(row) ==
    IF /\ row.planning_rate >= THRESHOLDS.planning_rate.excellent
       /\ row.no_cycle_rate <= THRESHOLDS.no_cycle_rate.excellent
    THEN <<Entry("best_practices",
                 [station_code |-> row.station_code,
                  planning_rate |-> row.planning_rate,
                  no_cycle_rate |-> row.no_cycle_rate,
                  recommendation |-> "Document best practices"])>>
    ELSE <<>>

\* The body of `for _, row in latest_df.iterrows()`.
StationEntries(row) ==
    IF ~SufficientVolume(row)
    THEN <<>>
    ELSE HighNoCycle(row) \o BandChain(row) \o BestPractice(row)

\* The loop over the stations from position k of latest_df on.
RECURSIVE StationsFrom(_, _, _)
StationsFrom(frame, k, entries) ==
    IF k > Len(StationOrder)
    THEN entries
    ELSE StationsFrom(frame, k + 1,
                      IF StationRows(frame, StationOrder[k]) = {}
                      THEN entries
                      ELSE entries \o StationEntries(LatestRow(frame, StationOrder[k])))

\* The entries of one list, in the order they were appended.
RECURSIVE ListOf(_, _)
ListOf(entries, list) ==
    IF entries = <<>>
    THEN <<>>
    ELSE LET rest == ListOf(Tail(entries), list)
         IN  IF Head(entries).list = list
             THEN <<Head(entries).rec>> \o rest
             ELSE rest

\* "Add knowledge sharing recommendations": one for every high-priority
\* no_cycle_rate entry of a station other than the best one.
RECURSIVE KnowledgeSharing(_, _)
KnowledgeSharing(best_practices, high) ==
    IF high = <<>> \/ ~best_practices.no_cycle_rate
    THEN <<>>
    ELSE LET rec == Head(high)
             rest == KnowledgeSharing(best_practices, Tail(high))
         IN  IF /\ rec.metric = "no_cycle_rate"
                /\ rec.station_code # best_practices.station_code
             THEN <<Entry("knowledge_sharing",
                          [source_station |-> best_practices.station_code,
                           target_station |-> rec.station_code,
                           metric |-> "no_cycle_rate",
                           recommendation |-> "Implement knowledge transfer"])>> \o rest
             ELSE rest

\* The names generate_recommendations can read: its parameters, its locals
\* and the globals of the module.
NamesInScope ==
    {"df", "trend_df", "best_practices", "anomalies", "recommendations",
     "latest_df", "row", "station", "station_trend", "trend", "rec",
     "best_station", "knowledge_rec", "anomaly",
     "THRESHOLDS", "RESULTS_DIR", "OUTPUT_DIR"}

\* The loop over the anomalies from the head of the list on: the entries it
\* appends, or the NameError of the first name it reads that is not in scope.
RECURSIVE AnomaliesFrom(_, _)
AnomaliesFrom(rest, entries) ==
    IF rest = <<>>
    THEN [raised |-> "none", entries |-> entries]
    ELSE LET anomaly == Head(rest)
         IN  IF anomaly.type = "negative"
             THEN IF anomaly.metric = "no_cycle_rate"
                  THEN IF "mean_no_cycle" \notin NamesInScope
                       THEN [raised |-> "NameError", entries |-> entries]
                       ELSE AnomaliesFrom(Tail(rest),
                                Append(entries,
                                    Entry("high_priority",
                                          [station_code |-> anomaly.station_code,
                                           date |-> anomaly.date,
                                           metric |-> anomaly.metric,
                                           current_value |-> anomaly.value,
                                           target_value |-> "mean_no_cycle",
                                           potential_impact |-> "high",
                                           recommendation |-> "Investigate abnormal no-cycle rate"])))
                  ELSE IF anomaly.metric = "planning_rate"
                  THEN IF "mean_planning" \notin NamesInScope
                       THEN [raised |-> "NameError", entries |-> entries]
                       ELSE AnomaliesFrom(Tail(rest),
                                Append(entries,
                                    Entry("high_priority",
                                          [station_code |-> anomaly.station_code,
                                           date |-> anomaly.date,
                                           metric |-> anomaly.metric,
                                           current_value |-> anomaly.value,
                                           target_value |-> "mean_planning",
                                           potential_impact |-> "high",
                                           recommendation |-> "Investigate abnormal planning rate"])))
                  ELSE AnomaliesFrom(Tail(rest), entries)
             ELSE IF anomaly.type = "unexpected" /\ anomaly.metric = "correlation"
             THEN AnomaliesFrom(Tail(rest),
                      Append(entries,
                          Entry("medium_priority",
                                [station_code |-> anomaly.station_code,
                                 date |-> anomaly.date,
                                 metric |-> "correlation",
                                 potential_impact |-> "medium",
                                 recommendation |-> "Investigate unexpected correlation pattern"])))
             ELSE AnomaliesFrom(Tail(rest), entries)

\* generate_recommendations(df, trend_df, best_practices, anomalies): the five
\* lists it returns, or the exception that ends it.
generate_recommendations(frame, best_practices, anomaly_list) ==
    LET stations == StationsFrom(frame, 1, <<>>)
        sharing == KnowledgeSharing(best_practices, ListOf(stations, "high_priority"))
        after == AnomaliesFrom(anomaly_list, stations)
    IN  IF after.raised # "none"
        THEN [outcome |-> after.raised, high_priority |-> <<>>,
              medium_priority |-> <<>>, low_priority |-> <<>>,
              best_practices |-> <<>>, knowledge_sharing |-> <<>>]
        ELSE [outcome |-> "returned",
              high_priority |-> ListOf(after.entries, "high_priority"),
              medium_priority |-> ListOf(after.entries, "medium_priority"),
              low_priority |-> ListOf(after.entries, "low_priority"),
              best_practices |-> ListOf(after.entries, "best_practices"),
              knowledge_sharing |-> ListOf(sharing, "knowledge_sharing")]

\* The latest row of the first station: every band of both rates, either
\* volume.
LatestRows(date) ==
    {MetricsRow(StationOrder[1], date, v, p, n) :
        v \in Volumes, p \in PlanningRates, n \in NoCycleRates}

\* Its rows of earlier dates: a poor one of sufficient volume, an excellent
\* one of insufficient volume.
OlderRows(date) ==
    {MetricsRow(StationOrder[1], date, 1000, 59, 31),
     MetricsRow(StationOrder[1], date, 999, 95, 5)}

\* The one row of the second station.
OtherRows ==
    {MetricsRow(StationOrder[2], 1, 1000, 95, 5),
     MetricsRow(StationOrder[2], 1, 1000, 59, 31),
     MetricsRow(StationOrder[2], 1, 999, 60, 10)}

Reverse(seq) == [k \in 1..Len(seq) |-> seq[Len(seq) + 1 - k]]

\* The frames the engine is called with: the rows of the first station in
\* rising or in falling order of date, then the row of the second.
Frames ==
    UNION {
        UNION {
            {rows \o <<other>>, Reverse(rows) \o <<other>>} :
                rows \in {[k \in 1..n |-> [older[k] EXCEPT !.date = k]] \o <<latest>> :
                            older \in [1..n -> OlderRows(0)],
                            latest \in LatestRows(n + 1)}} :
        n \in 0..(MaxRecords - 1), other \in OtherRows}

\* An entry of detect_anomalies.
Anomaly(station_code, metric, type, value) ==
    [station_code |-> station_code, date |-> 1, metric |-> metric,
     type |-> type, value |-> value]

AnomalyLists ==
    {<<>>,
     <<Anomaly(StationOrder[2], "no_cycle_rate", "negative", 31)>>,
     <<Anomaly(StationOrder[2], "planning_rate", "negative", 59)>>,
     <<Anomaly(StationOrder[2], "planning_rate", "positive", 95)>>,
     <<Anomaly(StationOrder[2], "correlation", "unexpected", 0)>>,
     <<Anomaly(StationOrder[2], "correlation", "unexpected", 0),
       Anomaly(StationOrder[2], "no_cycle_rate", "negative", 31)>>}

\* What identify_best_practices may hand over for the no-cycle rate.
BestPracticeChoices ==
    {[no_cycle_rate |-> FALSE, station_code |-> StationOrder[2]],
     [no_cycle_rate |-> TRUE, station_code |-> StationOrder[2]]}

\* main's call of generate_recommendations.
CallRecommendations ==
    /\ recommendations.outcome = "none"
    /\ \E frame \in Frames : \E anomaly_list \in AnomalyLists :
       \E best_practices \in BestPracticeChoices :
          /\ df' = frame
          /\ anomalies' = anomaly_list
          /\ recommendations' =
                 generate_recommendations(frame, best_practices, anomaly_list)
    /\ UNCHANGED <<db, today, pc, mode, payload, conn, opened, live, result,
                   exitCode, trace, fault, wrote, seen, day0, built,
                   s3_event_file, event>>
    /\ UNCHANGED <<timeline, historical>>

NextEngine == CallRecommendations

SpecEngine == InitOffline /\ [][NextEngine]_vars

\* ------------------------------------------------------ the demo's sample
\* generate_s3_event_sample of sample_data_generator.py: the S3 notification
\* document, bucket and object two levels below Records.
DefaultBucket == "shipment-data-bucket"

DefaultKey == "shipment-events/2025/07/11/events.json"

\* random.randint(10000, 100000), the smallest and the largest.
SampleSizes == {"10000", "100000"}

generate_s3_event_sample(bucket, key, size) ==
    [Records |-> <<[eventName |-> "ObjectCreated:Put",
                    s3 |-> [bucket |-> [name |-> bucket],
                            object |-> [key |-> key, size |-> size]]]>>]

\* json.dump to the file and json.load in main: the dictionary comes back
\* as it was written; what process_s3_event can see of it are its own keys
\* bucket and object.
JsonRoundTrip(doc) ==
    LET keys == DOMAIN doc
    IN  Payload("dict",
                IF "bucket" \in keys THEN "dict" ELSE Absent,
                IF "bucket" \in keys THEN doc.bucket.name ELSE Absent,
                IF "object" \in keys THEN "dict" ELSE Absent,
                IF "object" \in keys THEN doc.object.key ELSE Absent,
                IF "object" \in keys THEN doc.object.size ELSE Absent,
                keys \ {"bucket", "object"} # {})

\* test_workflow.py, generate_s3_event_sample and its usage example:
\* python workflow_orchestrator.py --mode incremental --s3-event-file <file>
SampleStart(i) ==
    /\ \A j \in Procs \ {i} : pc[j] \in {"idle", "exited"} /\ i < j
    /\ \E size \in SampleSizes :
          Invoke(i, "incremental",
                 [given |-> TRUE, readable |-> TRUE,
                  parsed |-> JsonRoundTrip(
                      generate_s3_event_sample(DefaultBucket, DefaultKey, size))])

NextSample ==
    \/ \E i \in Procs : SampleStart(i)
    \/ \E i \in Procs : Gate(i)
    \/ \E i \in Procs : S3Event(i)
    \/ \E i \in Procs : Main(i)
    \/ \E i \in Procs : Refresh(i)

SpecSample == Init /\ [][NextSample]_vars

\* ---------------------------------------------------------------- claims
RanMain(i) == Has(trace[i], "main_commit") \/ Has(trace[i], "main_rollback")

RanRefresh(i) == Has(trace[i], "refresh_commit") \/ Has(trace[i], "refresh_rollback")

Exited(i) == pc[i] = "exited"

\* The first place of x in seq, 0 when it is not there.
Pos(seq, x) ==
    IF Has(seq, x)
    THEN CHOOSE k \in 1..Len(seq) : seq[k] = x /\ \A j \in 1..(k - 1) : seq[j] # x
    ELSE 0

Count(seq, xs) == Cardinality({k \in 1..Len(seq) : seq[k] \in xs})

PosRefresh(i) ==
    IF Has(trace[i], "refresh_commit")
    THEN Pos(trace[i], "refresh_commit") ELSE Pos(trace[i], "refresh_rollback")

\* C1: an incremental invocation whose gate finds no completed daily_base
\* checkpoint, or an empty base timeline, ends with success=false and the
\* precondition error; the incremental query and the view refresh run only
\* in invocations whose gate found both.
C1_IncrementalRefused ==
    \A i \in Procs :
        mode[i] = "incremental" =>
            /\ (seen[i].reached /\ ~(seen[i].base /\ seen[i].completed)) =>
                   /\ Exited(i)
                   /\ result[i] = PreconditionFailure
                   /\ exitCode[i] = 1
            /\ (RanMain(i) \/ RanRefresh(i)) => (seen[i].base /\ seen[i].completed)

C1_Witness ==
    \E i \in Procs :
        /\ mode[i] = "incremental"
        /\ seen[i].reached
        /\ seen[i].base
        /\ ~seen[i].completed
        /\ result[i] = PreconditionFailure

\* C2 as stated: a daily_base invocation whose gate runs on a date on which
\* an earlier daily_base invocation has succeeded returns "Already
\* completed" and does not execute the build query.
C2_SecondCallIsNoOp ==
    \A i \in Procs :
        (mode[i] = "daily_base" /\ seen[i].after) =>
            /\ Exited(i)
            /\ result[i] = AlreadyCompleted
            /\ ~RanMain(i)

\* C2, amended: the same, provided the gate query of the second invocation
\* does not raise; when it raises the invocation does not answer "Already
\* completed" and goes on to the build query.
C2_SecondCallIsNoOpUnlessGateRaises ==
    \A i \in Procs :
        (mode[i] = "daily_base" /\ seen[i].after) =>
            IF seen[i].raised
            THEN result[i] # AlreadyCompleted /\ (Exited(i) => RanMain(i) \/ Has(trace[i], "connect_failed"))
            ELSE /\ Exited(i)
                 /\ result[i] = AlreadyCompleted
                 /\ exitCode[i] = 0
                 /\ ~RanMain(i)
                 /\ ~RanRefresh(i)

C2_Witness ==
    \E i \in Procs :
        /\ mode[i] = "daily_base"
        /\ seen[i].after
        /\ ~seen[i].raised
        /\ result[i] = AlreadyCompleted

C4_OneTransaction ==
    \A i \in Procs :
        (Exited(i) /\ Has(trace[i], "main_commit")) => Has(trace[i], "refresh_commit")

\* C4, amended: the main query and the view refresh are two transactions,
\* each committed or rolled back as a whole; the refresh begins only after
\* the main query is committed, and a rolled back refresh leaves the main
\* query committed.
C4_TwoTransactions ==
    \A i \in Procs :
        /\ (RanRefresh(i) /\ mode[i] # "refresh_view") => Has(trace[i], "main_commit")
        /\ Has(trace[i], "main_rollback") => (wrote[i] = {} /\ ~RanRefresh(i))
        /\ "view" \in wrote[i] => Has(trace[i], "refresh_commit")
        /\ wrote[i] \ {"view"} # {} => Has(trace[i], "main_commit")
        /\ (Has(trace[i], "refresh_rollback") /\ mode[i] # "refresh_view") =>
               (result[i].success /\ "view" \notin wrote[i])

C4_Witness ==
    \E i \in Procs :
        /\ Exited(i)
        /\ Has(trace[i], "main_commit")
        /\ Has(trace[i], "refresh_rollback")
        /\ "cp" \in wrote[i]

\* What main was told: an exception, a dictionary with an error key, or a
\* dictionary with success false.
Failed(i) ==
    \/ result[i].kind = "raised"
    \/ result[i].error # Absent
    \/ result[i].kind = "result" /\ ~result[i].success

\* C5: in every mode the exit code is 0 when the operation succeeded and 1
\* when it failed.
C5_ExitCode ==
    \A i \in Procs :
        Exited(i) => exitCode[i] = (IF Failed(i) THEN 1 ELSE 0)

\* C6 as stated: every failing outcome of the three mutating modes is a
\* dictionary with success=false, error and execution_time.
C6_FailureHasThreeFields ==
    \A i \in Procs :
        (Exited(i) /\ mode[i] # "status" /\ Failed(i)) =>
            /\ result[i].kind = "result"
            /\ result[i].success = FALSE
            /\ result[i].error # Absent
            /\ result[i].execution_time

\* C6, amended: every failing dictionary the three mutating modes return
\* has success=false and error; it has execution_time exactly when it comes
\* from execute_sql_file (a failed main query), not when it is the
\* precondition refusal or a failed view refresh.
C6_FailureHasErrorTimeOnlyFromMainQuery ==
    \A i \in Procs :
        (Exited(i) /\ mode[i] # "status" /\ result[i].kind = "result"
                   /\ ~result[i].success) =>
            /\ result[i].error # Absent
            /\ result[i].execution_time <=> Has(trace[i], "main_rollback")

C6_Witness ==
    \E i \in Procs :
        /\ Exited(i)
        /\ mode[i] = "refresh_view"
        /\ Has(trace[i], "refresh_rollback")
        /\ ~result[i].success
        /\ ~result[i].execution_time

\* C7: when connect_database raises the invocation ends there with exit
\* code 1, in every mode; when the database was never reached, no gate
\* query, main query or view refresh has been executed.
C7_UnreachableIsFatal ==
    \A i \in Procs :
        Has(trace[i], "connect_failed") =>
            /\ Exited(i)
            /\ exitCode[i] = 1
            /\ trace[i][Len(trace[i])] = "connect_failed"
            /\ opened[i] = 0 => trace[i] = <<"connect_failed">>

C7_Witness ==
    \E i \in Procs :
        /\ mode[i] = "status"
        /\ Exited(i)
        /\ trace[i] = <<"connect_failed">>
        /\ exitCode[i] = 1

\* C8: the storage event never alters control flow: the step that looks at
\* it always leads to the incremental query, as the gate does without an
\* event, and changes nothing but the log.
C8_PayloadIsInformational ==
    [][\A i \in Procs :
          pc[i] = "s3" =>
              \/ UNCHANGED <<pc[i], trace[i], payload[i]>>
              \/ /\ pc'[i] = "main"
                 /\ trace'[i] \in {Append(trace[i], "s3_event"),
                                   Append(trace[i], "s3_error")}
                 /\ UNCHANGED <<db, today, mode, conn, opened, live, result,
                   exitCode,
                                fault, wrote, seen, day0, built,
                                s3_event_file>>]_vars

C8_Witness ==
    \E i \in Procs :
        /\ Has(trace[i], "s3_error")
        /\ Has(trace[i], "main_commit")
        /\ Exited(i)

\* C9: an invocation whose main query failed has written nothing to the
\* checkpoint store; the store changes only by a committed main query.
C9_FailureLeavesCheckpoints ==
    \A i \in Procs :
        /\ Has(trace[i], "main_rollback") => (Exited(i) /\ "cp" \notin wrote[i])
        /\ "cp" \in wrote[i] => Has(trace[i], "main_commit")
        /\ \A r \in db.cp : r.status = "failed" => (r.type = "daily_base" /\ r.day = 0)

C9_Witness ==
    \E i \in Procs :
        /\ Has(trace[i], "main_rollback")
        /\ fault[i] = "commit"
        /\ \E r \in db.cp : r.status = "failed"

\* C10 as stated: the availability gate answers true exactly when the base
\* timeline has a row and the daily_base checkpoint is completed, whatever
\* its date.
C10_AvailableIff ==
    \A i \in Procs :
        (mode[i] = "incremental" /\ seen[i].reached) =>
            (result[i] # PreconditionFailure <=> (seen[i].base /\ seen[i].completed))

\* C10, amended: the same when neither query of the gate raises; when one
\* raises the gate answers false.
C10_AvailableIffUnlessRaised ==
    \A i \in Procs :
        (mode[i] = "incremental" /\ seen[i].reached) =>
            (result[i] # PreconditionFailure
                <=> (seen[i].base /\ seen[i].completed /\ ~seen[i].raised))

C10_Witness ==
    \E i \in Procs :
        /\ mode[i] = "incremental"
        /\ seen[i].reached
        /\ ~seen[i].raised
        /\ seen[i].base
        /\ seen[i].completed
        /\ ~seen[i].completedToday
        /\ Has(trace[i], "main_commit")

\* C11 as stated: the completed-today gate of a daily_base invocation
\* answers true exactly when a daily_base checkpoint row with status
\* completed and today's date exists.
C11_CompletedTodayIff ==
    \A i \in Procs :
        (mode[i] = "daily_base" /\ seen[i].reached) =>
            (result[i] = AlreadyCompleted <=> seen[i].completedToday)

\* C11, amended: the same when the query of the gate does not raise; when
\* it raises the gate answers false, whatever the checkpoint store holds.
C11_CompletedTodayIffUnlessRaised ==
    \A i \in Procs :
        (mode[i] = "daily_base" /\ seen[i].reached) =>
            /\ result[i] = AlreadyCompleted
                   <=> (seen[i].completedToday /\ ~seen[i].raised)
            /\ result[i] # AlreadyCompleted => pc[i] \in {"main", "refresh", "exited"}
            /\ (result[i] # AlreadyCompleted /\ Exited(i)) =>
                   (RanMain(i) \/ Has(trace[i], "connect_failed"))

\* The gate lets a build pass on a day whose checkpoint is completed with
\* the date of another day.
C11_Witness ==
    \E i \in Procs :
        /\ mode[i] = "daily_base"
        /\ seen[i].reached
        /\ ~seen[i].raised
        /\ seen[i].completed
        /\ ~seen[i].completedToday
        /\ pc[i] = "main"

C13_NoRetry ==
    \A i \in Procs :
        /\ Count(trace[i], {"gate_completed", "gate_available"}) <= 1
        /\ Count(trace[i], {"main_commit", "main_rollback"}) <= 1
        /\ Count(trace[i], {"refresh_commit", "refresh_rollback"}) <= 1
        /\ Count(trace[i], {"status_queries"}) <= 1
        /\ Has(trace[i], "main_rollback") =>
               /\ Exited(i)
               /\ exitCode[i] = 1
               /\ Len(trace[i]) = Pos(trace[i], "main_rollback") + 1
               /\ trace[i][Len(trace[i])] = "error_notification"
        /\ Has(trace[i], "refresh_rollback") =>
               /\ Exited(i)
               /\ Pos(trace[i], "refresh_rollback") >= Len(trace[i]) - 1

C13_Witness ==
    \E i \in Procs :
        /\ mode[i] = "incremental"
        /\ Exited(i)
        /\ fault[i] = "commit"
        /\ trace[i] = <<"gate_available", "main_rollback", "error_notification">>

\* C14: the gate is a check, not a lock.  All it excludes is a build whose
\* gate query ran, without raising, after a completed checkpoint of today
\* was committed; invocations whose gates ran before that commit all build
\* (C14_Witness: two of them have committed the build on the same date).
C14_GateIsOnlyACheck ==
    \A i \in Procs :
        /\ (mode[i] = "daily_base" /\ RanMain(i) /\ ~seen[i].raised) =>
               ~seen[i].completedToday
        /\ (mode[i] = "daily_base" /\ seen[i].reached /\ ~seen[i].completedToday) =>
               /\ pc[i] \in {"main", "refresh", "exited"}
               /\ result[i] # AlreadyCompleted

C14_Witness ==
    /\ \A i \in Procs :
          /\ mode[i] = "daily_base"
          /\ day0[i] = today
          /\ seen[i].reached
          /\ ~seen[i].raised
          /\ ~seen[i].completedToday
          /\ Has(trace[i], "main_commit")

\* C15: a call of refresh_realtime_view changes nothing but the view; a
\* call that succeeds leaves the view with the content the base and the
\* incremental timeline determine, a call that fails leaves it as it was;
\* so a call on a view that an earlier call has refreshed, with the two
\* timelines unchanged since, changes nothing at all.
C15_RefreshIdempotent ==
    [][\A i \in Procs :
          (pc[i] = "refresh" /\ pc'[i] = "exited") =>
              /\ db'.base = db.base
              /\ db'.inc = db.inc
              /\ db'.cp = db.cp
              /\ Has(trace'[i], "refresh_commit") => db'.view = db.base + db.inc
              /\ ~Has(trace'[i], "refresh_commit") => db' = db
              /\ db.view = db.base + db.inc => db' = db]_vars

\* A refresh_view call has succeeded on a view that an earlier call had
\* filled, and has changed nothing.
C15_Witness ==
    \E i \in Procs :
        /\ mode[i] = "refresh_view"
        /\ Exited(i)
        /\ trace[i] = <<"refresh_commit">>
        /\ result[i].success
        /\ wrote[i] = {}
        /\ db.view > 0
        /\ db.view = db.base + db.inc

\* C16: the step of an invocation that runs is_daily_base_completed,
\* is_daily_base_available or get_processing_status leaves every table as
\* it was, whether the queries raise or not; an invocation that ends at its
\* gate or in status mode has written nothing.
C16_ReadOnly ==
    [][\A i \in Procs :
          /\ (pc[i] \in {"gate", "status"} /\ pc'[i] # pc[i]) =>
                 /\ db' = db
                 /\ wrote'[i] = {}
          /\ (Exited(i) /\ ~RanMain(i) /\ ~RanRefresh(i)) => wrote[i] = {}]_vars

\* The three queries of get_processing_status have failed over tables that
\* hold rows.
C16_Witness ==
    \E i \in Procs :
        /\ mode[i] = "status"
        /\ Exited(i)
        /\ Has(trace[i], "status_error")
        /\ result[i].error # Absent
        /\ db.cp # {}
        /\ db.stats > 0
        /\ db.health > 0

\* C17: a status invocation whose queries do not raise reports null for a
\* missing checkpoint row, null for a missing health row and the list of the
\* processing_stats rows, cut at ten; over empty tables that is checkpoint
\* null, recent_stats [] and health null, with no error key.  Only a raising
\* query gives the error key.
C17_StatusOfAbsence ==
    \A i \in Procs :
        (mode[i] = "status" /\ Exited(i) /\ Has(trace[i], "status_queries")) =>
            /\ exitCode[i] = 0
            /\ result[i].kind = "status"
            /\ result[i].error # Absent <=> Has(trace[i], "status_error")
            /\ result[i].error = Absent =>
                   /\ result[i].checkpoint = "null" <=> db.cp = {}
                   /\ result[i].checkpoint \in {"null", "row"}
                   /\ result[i].health = "null" <=> db.health = 0
                   /\ result[i].health \in {"null", "row"}
                   /\ result[i].recent_stats \in 0..RecentStatsLimit
                   /\ result[i].recent_stats <= db.stats
                   /\ db.stats <= RecentStatsLimit => result[i].recent_stats = db.stats
                   /\ db.stats >= RecentStatsLimit =>
                          result[i].recent_stats = RecentStatsLimit
                   /\ (db.cp = {} /\ db.stats = 0 /\ db.health = 0) =>
                          result[i] = StatusRes("null", 0, "null", Absent)

C17_Witness ==
    \E i \in Procs :
        /\ mode[i] = "status"
        /\ Exited(i)
        /\ trace[i] = <<"status_queries">>
        /\ db.cp = {}
        /\ db.stats = 0
        /\ db.health = 0
        /\ result[i].checkpoint = "null"
        /\ result[i].recent_stats = 0
        /\ result[i].health = "null"
        /\ result[i].error = Absent

\* The value under bucket, or under object, is no dictionary, or the
\* document is none.
NotADictionary(p) ==
    \/ p.top # "dict"
    \/ p.bucket \notin {"dict", Absent}
    \/ p.object \notin {"dict", Absent}

NameMissing(p) == p.top # "dict" \/ p.bucket # "dict" \/ p.name = Absent

KeyMissing(p) == p.top # "dict" \/ p.object # "dict" \/ p.key = Absent

SizeMissing(p) == p.top # "dict" \/ p.object # "dict" \/ p.size = Absent

\* C18 as stated: whatever is missing of bucket, bucket.name, object,
\* object.key and object.size, process_s3_event logs the event with the
\* missing name and key absent and the missing size zero, and does not
\* raise.
C18_MissingIsAbsentOrZero ==
    \A i \in Procs :
        event[i] # NoEvent =>
            /\ ~event[i].raised
            /\ (NameMissing(payload[i]) \/ KeyMissing(payload[i])
                    \/ SizeMissing(payload[i])) =>
                   /\ event[i].logged = "event"
                   /\ NameMissing(payload[i]) => event[i].bucket = Absent
                   /\ KeyMissing(payload[i]) => event[i].key = Absent
                   /\ SizeMissing(payload[i]) => event[i].size = "0"

\* C18, amended: the same for a dictionary whose bucket and object, where
\* present, are dictionaries; for any other document (a list, a string, a
\* bucket or object that is null or a string) nothing is extracted and the
\* error is logged.  process_s3_event raises in neither case.
C18_MissingIsAbsentOrZeroInDictionaries ==
    \A i \in Procs :
        event[i] # NoEvent =>
            /\ ~event[i].raised
            /\ ~NotADictionary(payload[i]) =>
                   /\ event[i].logged = "event"
                   /\ event[i].bucket = (IF NameMissing(payload[i]) THEN Absent ELSE "x")
                   /\ event[i].key = (IF KeyMissing(payload[i]) THEN Absent ELSE "y")
                   /\ event[i].size = (IF SizeMissing(payload[i]) THEN "0" ELSE "123")
            /\ NotADictionary(payload[i]) =>
                   event[i] = [NoEvent EXCEPT !.logged = "error"]

\* {"object": {"key": "y"}}: no bucket, no size.
C18_Witness ==
    \E i \in Procs :
        /\ payload[i] = Payload("dict", Absent, Absent, "dict", "y", Absent, FALSE)
        /\ event[i].logged = "event"
        /\ event[i].bucket = Absent
        /\ event[i].key = "y"
        /\ event[i].size = "0"

\* Where main enters the method of mode m.
EntryOf(m) ==
    CASE m = "refresh_view" -> "refresh"
      [] m = "status" -> "status"
      [] OTHER -> "gate"

\* C19: outside incremental mode the event file is never opened, whether
\* --s3-event-file is given or not: the invocation begins at the entry of
\* its mode with no payload, no result and no exit code, as it does without
\* the option, and no payload is ever looked at; in incremental mode the
\* file is opened exactly when the option is given.
C19_FileOnlyInIncremental ==
    [][\A i \in Procs :
          /\ mode[i] # "incremental" =>
                 /\ ~s3_event_file[i].opened
                 /\ payload[i] = NoPayload
                 /\ event[i] = NoEvent
                 /\ pc[i] # "s3"
                 /\ ~Has(trace[i], "event_file_failed")
          /\ mode[i] = "incremental" =>
                 (s3_event_file[i].opened <=> s3_event_file[i].given)
          /\ (pc[i] \in {"idle", "exited"} /\ pc'[i] \notin {"idle", "exited"}
                  /\ mode'[i] # "incremental") =>
                 /\ pc'[i] = EntryOf(mode'[i])
                 /\ payload'[i] = NoPayload
                 /\ result'[i] = NoResult
                 /\ exitCode'[i] = -1
                 /\ trace'[i] = <<>>
                 /\ conn'[i] = "none"
                 /\ db' = db]_vars

\* A daily_base invocation given an event file has built the base timeline
\* and exited with 0.
C19_Witness ==
    \E i \in Procs :
        /\ mode[i] = "daily_base"
        /\ s3_event_file[i].given
        /\ ~s3_event_file[i].opened
        /\ Exited(i)
        /\ Has(trace[i], "main_commit")
        /\ exitCode[i] = 0

\* C20 as stated: an invocation has at most one open connection at any
\* time, and all its database operations use one and the same connection:
\* psycopg2.connect has returned at most one connection to it.
C20_OneConnection ==
    \A i \in Procs :
        /\ live[i] <= 1
        /\ opened[i] <= 1

\* C20, amended: an invocation has at most one open connection at any time:
\* connect_database connects only when the orchestrator has no connection
\* or the one it has is closed, and every gate check, main query and view
\* refresh runs on the connection the orchestrator holds at that moment,
\* which is a new one whenever the previous one was found closed.
C20_OneConnectionAtATime ==
    [][\A i \in Procs :
          /\ live[i] \in {0, 1}
          /\ conn[i] = "none" <=> opened[i] = 0
          /\ (trace[i] # <<>> /\ trace[i] # <<"event_file_failed">>
                  /\ trace[i][Len(trace[i])] # "connect_failed") => live[i] = 1
          /\ opened'[i] = opened[i] + 1 =>
                 /\ conn'[i] = "open"
                 /\ live'[i] = 1
                 /\ conn[i] = "none" \/ live[i] = 1
                 /\ conn[i] = "none" => live[i] = 0]_vars

\* The gate query and the main query of one invocation have run on two
\* connections.
C20_Witness ==
    \E i \in Procs :
        /\ opened[i] = 2
        /\ live[i] = 1
        /\ RanMain(i)
        /\ Has(trace[i], "gate_completed")

\* C21: a refresh_view invocation consults no gate: its first and only
\* database operation is the statement of refresh_realtime_view, executed
\* whatever the checkpoint store and the timelines hold (unless the
\* database cannot be reached at all), and its result is that statement's.
C21_RefreshUnconditional ==
    \A i \in Procs :
        (mode[i] = "refresh_view" /\ pc[i] # "idle") =>
            /\ ~seen[i].reached
            /\ pc[i] \in {"refresh", "exited"}
            /\ pc[i] = "refresh" => trace[i] = <<>>
            /\ Exited(i) =>
                   /\ trace[i] \in {<<"refresh_commit">>, <<"refresh_rollback">>,
                                     <<"connect_failed">>}
                   /\ trace[i] = <<"refresh_commit">> <=>
                          (result[i].kind = "result" /\ result[i].success)
                   /\ result[i] # PreconditionFailure
                   /\ result[i] # AlreadyCompleted

\* The view has been refreshed over a base timeline with rows whose
\* checkpoint is failed: both gates would have refused.
C21_Witness ==
    \E i \in Procs :
        /\ mode[i] = "refresh_view"
        /\ Exited(i)
        /\ trace[i] = <<"refresh_commit">>
        /\ "view" \in wrote[i]
        /\ db.base > 0
        /\ CheckpointRow("daily_base", "failed", 0) \in db.cp
        /\ exitCode[i] = 0

\* C22: an incremental invocation given the demo's sample file logs the
\* storage event with the bucket name, the object key and the size the
\* sample holds.
C22_SampleIsRead ==
    \A i \in Procs :
        event[i] # NoEvent =>
            /\ event[i].logged = "event"
            /\ event[i].bucket = DefaultBucket
            /\ event[i].key = DefaultKey
            /\ event[i].size \in SampleSizes


C24_RaisingGateAnswersFalse ==
    \A i \in Procs :
        (seen[i].reached /\ seen[i].raised)
        => IF mode[i] = "incremental"
           THEN /\ Exited(i)
                /\ result[i] = PreconditionFailure
                /\ exitCode[i] = 1
                /\ trace[i] = <<"gate_available">>
           ELSE /\ mode[i] = "daily_base"
                /\ result[i] # AlreadyCompleted
                /\ \/ pc[i] \in {"main", "refresh"}
                   \/ /\ Exited(i)
                      /\ \/ RanMain(i)
                         \/ trace[i] = <<"gate_completed", "connect_failed">>

C24_Witness ==
    \E i \in Procs :
        /\ mode[i] = "daily_base"
        /\ seen[i].raised
        /\ seen[i].completedToday
        /\ Has(trace[i], "main_commit")
        /\ Exited(i)


\* C25: run_incremental_update processes the payload only after the
\* availability gate has passed and before the incremental query executes:
\* the payload's entry is the one that follows the gate's, the gate found
\* the base timeline and a completed checkpoint, and the query's entry comes
\* later; when the gate refuses, the payload is never processed or logged.
C25_PayloadBetweenGateAndQuery ==
    \A i \in Procs :
        LET S3 == {"s3_event", "s3_error", "s3_raised"}
        IN  /\ (Count(trace[i], S3) > 0 \/ event[i] # NoEvent)
               => /\ mode[i] = "incremental"
                  /\ Count(trace[i], S3) = 1
                  /\ trace[i][1] = "gate_available"
                  /\ trace[i][2] \in S3
                  /\ seen[i].base /\ seen[i].completed /\ ~seen[i].raised
                  /\ Count(trace[i], {"main_commit", "main_rollback"}) =
                        Count(SubSeq(trace[i], 3, Len(trace[i])),
                              {"main_commit", "main_rollback"})
            /\ result[i] = PreconditionFailure
               => /\ Count(trace[i], S3) = 0
                  /\ event[i] = NoEvent

C25_Witness ==
    \E i \in Procs :
        /\ mode[i] = "incremental"
        /\ Len(trace[i]) >= 3
        /\ SubSeq(trace[i], 1, 3) = <<"gate_available", "s3_event", "main_commit">>
        /\ event[i].logged = "event"


\* The position of an event type in the vocabulary.
VocabularyPosition(event_type) ==
    CHOOSE k \in 1..Len(event_progression) : event_progression[k] = event_type

\* C26: every timeline generate_shipment_timeline returns follows the
\* vocabulary order: its first event is created, its last is delivered, and
\* the vocabulary positions of its events increase strictly, so that no
\* event type occurs twice and nothing follows delivered.
C26_TimelineFollowsVocabulary ==
    timeline # <<>>
    => /\ timeline[1].event_type = "created"
       /\ timeline[Len(timeline)].event_type = "delivered"
       /\ \A j, k \in 1..Len(timeline) :
              j < k => VocabularyPosition(timeline[j].event_type) <
                       VocabularyPosition(timeline[k].event_type)
       /\ \A j, k \in 1..Len(timeline) :
              timeline[j].event_type = timeline[k].event_type => j = k

C26_Witness ==
    /\ Len(timeline) = 5
    /\ timeline[2].event_type = "packed"
    /\ timeline[5].event_type = "delivered"


\* The events of one shipment in a list of events.
EventsOf(events, id) == SelectSeq(events, LAMBDA e : e.shipment_id = id)

\* C27: generate_historical_data(days, shipments_per_day) returns the events
\* of exactly days * shipments_per_day distinct shipment ids, every shipment
\* with between 2 and 10 events of which exactly one is delivered, so that
\* the demo counts as many delivered shipments as unique shipments.
C27_HistoricalShipments ==
    historical.called
    => LET events == historical.all_events
           ids == {events[k].shipment_id : k \in 1..Len(events)}
       IN  /\ Cardinality(ids) = historical.days * historical.shipments_per_day
           /\ \A id \in ids :
                  /\ Len(EventsOf(events, id)) >= 2
                  /\ Len(EventsOf(events, id)) <= 10
                  /\ DeliveredShipments(EventsOf(events, id)) = 1
           /\ DeliveredShipments(events) = UniqueShipments(events)

C27_Witness ==
    /\ historical.called
    /\ historical.days = 2
    /\ historical.shipments_per_day = 2
    /\ Len(historical.all_events) = 22
    /\ UniqueShipments(historical.all_events) = 4


\* A list of the returned recommendations holds a threshold entry of the
\* station.
Placed(list, station) ==
    \E k \in 1..Len(recommendations[list]) :
        /\ recommendations[list][k].station_code = station
        /\ recommendations[list][k].metric \in {"no_cycle_rate", "planning_rate"}
        /\ recommendations[list][k].recommendation \notin
              {"Investigate abnormal no-cycle rate",
               "Investigate abnormal planning rate"}

\* The stations of df, and the record of a station that no other record of
\* the station is later than.
StationsOf(frame) == {frame[k].station_code : k \in 1..Len(frame)}

LatestRecord(frame, station) ==
    CHOOSE k \in 1..Len(frame) :
        /\ frame[k].station_code = station
        /\ \A j \in 1..Len(frame) :
               frame[j].station_code = station => frame[j].date <= frame[k].date

\* C28: a station of sufficient volume is placed in medium priority whenever
\* its latest no-cycle rate is in (10, 30] or its latest planning rate is in
\* [60, 75), in high priority whenever its no-cycle rate is above 30 or its
\* planning rate below 60, and in low priority whenever its no-cycle rate is
\* in (5, 10] or its planning rate is in [75, 85), each metric in its own
\* band whatever the other metric is.
C28_BandsIndependent ==
    recommendations.outcome = "returned"
    => \A station \in StationsOf(df) :
          LET row == df[LatestRecord(df, station)]
              n == row.no_cycle_rate
              p == row.planning_rate
          IN  row.total_packages >= 1000
              => /\ (n > 30 \/ p < 60) => Placed("high_priority", station)
                 /\ ((10 < n /\ n <= 30) \/ (60 <= p /\ p < 75))
                       => Placed("medium_priority", station)
                 /\ ((5 < n /\ n <= 10) \/ (75 <= p /\ p < 85))
                       => Placed("low_priority", station)

\* C29: for every anomaly of type negative on no_cycle_rate or planning_rate
\* generate_recommendations returns normally, with exactly one high-priority
\* "Investigate abnormal ..." entry for it.
C29_NegativeAnomalyInvestigated ==
    \A a \in 1..Len(anomalies) :
        (/\ recommendations.outcome # "none"
         /\ anomalies[a].type = "negative"
         /\ anomalies[a].metric \in {"no_cycle_rate", "planning_rate"})
        => /\ recommendations.outcome = "returned"
           /\ Cardinality({k \in 1..Len(recommendations.high_priority) :
                  /\ recommendations.high_priority[k].station_code =
                        anomalies[a].station_code
                  /\ recommendations.high_priority[k].metric = anomalies[a].metric
                  /\ recommendations.high_priority[k].recommendation \in
                        {"Investigate abnormal no-cycle rate",
                         "Investigate abnormal planning rate"}}) = 1

\* C30: a station whose latest record has fewer than 1000 total packages
\* receives no threshold-based recommendation, high, medium or low, and no
\* best-practice entry, whatever its rates are.
C30_LowVolumeSkipped ==
    recommendations.outcome = "returned"
    => \A station \in StationsOf(df) :
          df[LatestRecord(df, station)].total_packages < 1000
          => /\ ~Placed("high_priority", station)
             /\ ~Placed("medium_priority", station)
             /\ ~Placed("low_priority", station)
             /\ \A k \in 1..Len(recommendations.best_practices) :
                    recommendations.best_practices[k].station_code # station

C30_Witness ==
    /\ recommendations.outcome = "returned"
    /\ Len(df) = 3
    /\ df[LatestRecord(df, StationOrder[1])].total_packages = 999
    /\ df[LatestRecord(df, StationOrder[1])].planning_rate = 59
    /\ df[LatestRecord(df, StationOrder[1])].no_cycle_rate = 31
    /\ \E k \in 1..Len(df) :
          df[k].station_code = StationOrder[1] /\ df[k].total_packages = 1000
    /\ Placed("high_priority", StationOrder[2])

====
